---------------------------- MODULE Spec2Model ----------------------------
(***************************************************************************)
(* Excel RAG system: the tabular store (database.py), the provider         *)
(* construction (llm_providers.py) and the retrieval pipeline with its     *)
(* query sanitizer (rag_system.py).                                        *)
(*                                                                         *)
(* Python strings on which the code works character by character (query    *)
(* text, sheet names, dtype names) are sequences of one-character strings. *)
(* A call that may raise yields a record [ok, val]: val is the returned    *)
(* value when ok, and the exception text otherwise.                        *)
(***************************************************************************)
EXTENDS Integers, Sequences, FiniteSets, TLC

VARIABLES
    sheets,                  \* ExcelDatabase.sheets: ordered dict, display name -> info
    conn,                    \* ExcelDatabase.conn: the tables of the SQLite backend
    pc,                      \* position of RAGSystem.query
    natural_language_query,  \* query()'s argument
    database_schema,         \* query()'s local: the schema snapshot
    sql_query,               \* query()'s local: the current query text
    e,                       \* query()'s local: the exception of the failed execution
    fixed_sql,               \* query()'s local: the repaired query text
    results,                 \* query()'s local: the last execution's result
    outcome,                 \* what query() gave its caller: a return value or an exception
    log,                     \* the calls query() made on the provider and the store, in order
    added,                   \* history: per display name, the data last given to add_sheet
    text,                    \* sanitizer runs: the input text
    cleaned,                 \* sanitizer runs: the results of successive _clean_sql_query calls
    display_name,            \* identifier runs: the display name
    derived,                 \* identifier runs: the outcomes of successive _clean_table_name calls
    environ,                 \* provider runs: os.environ
    created,                 \* provider runs: the last LLMProvider.create call, if any
    uploaded_file,           \* st.session_state.uploaded_file: the name of the file last taken in
    session_sheets,          \* st.session_state.sheets: the sheets read from that file, or None
    chat_history,            \* st.session_state.chat_history
    llm_provider             \* the provider label of the submission under way

vars == <<sheets, conn, pc, natural_language_query, database_schema, sql_query,
          e, fixed_sql, results, outcome, log, added, text, cleaned, display_name, derived, environ, created,
          uploaded_file, session_sheets, chat_history, llm_provider>>

storeVars    == <<sheets, conn, added>>
queryVars    == <<pc, natural_language_query, database_schema, sql_query, e,
                  fixed_sql, results, outcome, log>>
cleanVars    == <<text, cleaned>>
nameVars     == <<display_name, derived>>
providerVars == <<environ, created>>
sessionVars  == <<uploaded_file, session_sheets, chat_history>>
appVars      == <<uploaded_file, session_sheets, chat_history, llm_provider>>

-----------------------------------------------------------------------------
(* Python values                                                           *)

None == <<"None">>

\* st.session_state.sheets when it is None, and when it holds a file's sheets
NoSheets == [none |-> TRUE]

Loaded(items) == [none |-> FALSE, items |-> items]

Return(v) == [ok |-> TRUE, val |-> v]

\* an exception whose str() is msg
Raise(msg) == [ok |-> FALSE, val |-> msg]

\* str(e)
str(exception) == exception.val

Min(a, b) == IF a < b THEN a ELSE b

Max(a, b) == IF a > b THEN a ELSE b

\* str.isspace for one character
Whitespace == {" ", "\n", "\t"}

RECURSIVE lstrip(_)
lstrip(s) ==
    IF s # <<>> /\ Head(s) \in Whitespace THEN lstrip(Tail(s)) ELSE s

RECURSIVE rstrip(_)
rstrip(s) ==
    IF s # <<>> /\ s[Len(s)] \in Whitespace THEN rstrip(SubSeq(s, 1, Len(s) - 1)) ELSE s

\* str.strip()
strip(s) == rstrip(lstrip(s))

\* str.startswith(prefix)
startswith(s, prefix) ==
    Len(s) >= Len(prefix) /\ SubSeq(s, 1, Len(prefix)) = prefix

\* str.endswith(suffix)
endswith(s, suffix) ==
    Len(s) >= Len(suffix) /\ SubSeq(s, Len(s) - Len(suffix) + 1, Len(s)) = suffix

\* s[n:]
DropFirst(s, n) == SubSeq(s, Min(n, Len(s)) + 1, Len(s))

\* s[:-n]
DropLast(s, n) == SubSeq(s, 1, Max(Len(s) - n, 0))

\* sub in s
Contains(s, sub) ==
    \E i \in 0..(Len(s) - Len(sub)) : SubSeq(s, i + 1, i + Len(sub)) = sub

-----------------------------------------------------------------------------
(* RAGSystem._clean_sql_query                                              *)

\* the grave accent character (the lexer accepts none inside a string)
BackTick == "BACKTICK"

Fence == <<BackTick, BackTick, BackTick>>

FenceSql == <<BackTick, BackTick, BackTick, "s", "q", "l">>

_clean_sql_query(raw) ==
    LET s1 == strip(raw)
        s2 == IF startswith(s1, FenceSql) THEN strip(DropFirst(s1, 6))
              ELSE IF startswith(s1, Fence) THEN strip(DropFirst(s1, 3))
              ELSE s1
    IN  IF endswith(s2, Fence) THEN strip(DropLast(s2, 3)) ELSE s2

-----------------------------------------------------------------------------
(* ExcelDatabase._clean_table_name                                         *)

UpperCase == <<"A", "B", "C", "D", "E", "F", "G", "H", "I", "J", "K", "L", "M",
               "N", "O", "P", "Q", "R", "S", "T", "U", "V", "W", "X", "Y", "Z">>

LowerCase == <<"a", "b", "c", "d", "e", "f", "g", "h", "i", "j", "k", "l", "m",
               "n", "o", "p", "q", "r", "s", "t", "u", "v", "w", "x", "y", "z">>

Digits == {"0", "1", "2", "3", "4", "5", "6", "7", "8", "9"}

Range(s) == {s[i] : i \in DOMAIN s}

\* the characters the pattern [^a-zA-Z0-9] leaves alone
AlphaNumeric == Range(LowerCase) \cup Range(UpperCase) \cup Digits

\* re.sub(r'[^a-zA-Z0-9]', '_', s)
SubNonAlphaNumeric(s) ==
    [i \in DOMAIN s |-> IF s[i] \in AlphaNumeric THEN s[i] ELSE "_"]

SheetPrefix == <<"s", "h", "e", "e", "t", "_">>

_clean_table_name(n) ==
    LET c == SubNonAlphaNumeric(n)
    IN  IF c = <<>> THEN Raise(<<"IndexError: string index out of range">>)  \* clean[0]
        ELSE IF c[1] \in Digits THEN Return(SheetPrefix \o c)
        ELSE Return(c)

-----------------------------------------------------------------------------
(* LLMProvider.create and the providers' constructors                      *)

\* str.lower()
lower(s) ==
    [i \in DOMAIN s |->
        IF s[i] \in Range(UpperCase)
        THEN LowerCase[CHOOSE k \in DOMAIN UpperCase : UpperCase[k] = s[i]]
        ELSE s[i]]

\* the truth value of an optional string: None and "" are false
Truthy(v) == v # None /\ v # <<>>

\* os.environ.get(key)
environ_get(env, key) == IF key \in DOMAIN env THEN env[key] ELSE None

\* the three __init__ bodies differ in the variable read and the fields set
ProviderInit(class, variable, api_key, env) ==
    LET key == IF api_key = None THEN environ_get(env, variable) ELSE api_key
    IN  IF ~Truthy(key)
        THEN Raise(<<"ValueError: API key is required">>)
        ELSE Return([class |-> class, api_key |-> key])

OpenAIProvider(api_key, env) ==
    ProviderInit("OpenAIProvider", "OPENAI_API_KEY", api_key, env)

GeminiProvider(api_key, env) ==
    ProviderInit("GeminiProvider", "GEMINI_API_KEY", api_key, env)

OpenRouterProvider(api_key, env) ==
    ProviderInit("OpenRouterProvider", "OPENROUTER_API_KEY", api_key, env)

create(provider_name, api_key, env) ==
    IF lower(provider_name) = <<"o", "p", "e", "n", "a", "i">>
    THEN OpenAIProvider(api_key, env)
    ELSE IF lower(provider_name) = <<"g", "e", "m", "i", "n", "i">>
    THEN GeminiProvider(api_key, env)
    ELSE IF lower(provider_name) = <<"o", "p", "e", "n", "r", "o", "u", "t", "e", "r">>
    THEN OpenRouterProvider(api_key, env)
    ELSE Raise(<<"ValueError: Unsupported LLM provider">>)

-----------------------------------------------------------------------------
(* Python dict (insertion ordered): a sequence of [key, value] items       *)

Keys(d) == {d[i].key : i \in DOMAIN d}

Get(d, k) == d[CHOOSE i \in DOMAIN d : d[i].key = k].value

\* a dict that keeps the first value stored under a key
SetDefault(d, k, v) ==
    IF k \in Keys(d) THEN d ELSE Append(d, [key |-> k, value |-> v])

\* d[k] = v
Set(d, k, v) ==
    IF k \in Keys(d)
    THEN [i \in DOMAIN d |-> IF d[i].key = k THEN [key |-> k, value |-> v] ELSE d[i]]
    ELSE Append(d, [key |-> k, value |-> v])

-----------------------------------------------------------------------------
(* pandas.DataFrame: [cols: sequence of [name, dtype, values], len]; every *)
(* column holds len values, the missing ones being NaN                     *)

NaN == "NaN"

\* list(df.columns)
columns(df) == [i \in DOMAIN df.cols |-> df.cols[i].name]

\* Series.dropna()
dropna(values) == SelectSeq(values, LAMBDA v : v # NaN)

\* Series.sample(n): n values drawn without replacement, in any order;
\* no outcome when n exceeds the population (ValueError)
sample(values, n) ==
    IF n > Len(values) THEN {}
    ELSE {[i \in 1..n |-> values[f[i]]] :
            f \in {g \in [1..n -> DOMAIN values] :
                     \A i, j \in 1..n : i # j => g[i] # g[j]}}

\* DataFrame.empty
empty(df) == df.len = 0 \/ Len(df.cols) = 0

IntStr(n) == <<"0", "1", "2", "3", "4", "5", "6", "7", "8", "9">>[n + 1]

RECURSIVE RowsToString(_, _)
RowsToString(df, r) ==
    IF r = 0 THEN <<>>
    ELSE RowsToString(df, r - 1) \o <<IntStr(r - 1)>>
            \o [i \in DOMAIN df.cols |-> df.cols[i].values[r]]

\* DataFrame.to_string(): the header, then each row after its index
to_string(df) ==
    IF empty(df)
    THEN <<"Empty DataFrame", "Columns:">> \o columns(df) \o <<"Index: []">>
    ELSE columns(df) \o RowsToString(df, df.len)

-----------------------------------------------------------------------------
(* ExcelDatabase                                                           *)

\* DataFrame.to_sql(clean_name, conn, if_exists='replace')
to_sql(c, table, df) ==
    [t \in DOMAIN c \cup {table} |-> IF t = table THEN df ELSE c[t]]

get_all_sheet_info(sh) == sh

\* pandas.read_sql_query(query, conn) on the sqlite3 connection. The outcomes
\* [out, conn]: a DROP statement is run by the cursor and the call then raises
\* for want of a result set; a SELECT gives a result or a database error; any
\* other text is a syntax error. The error text quotes the statement.
DropStatement == <<"D", "R", "O", "P", " ">>

DatabaseError(query, reason) ==
    Raise(<<"Execution failed on sql">> \o query \o <<reason>>)

read_sql_query(query, c, Results, Reasons) ==
    IF startswith(query, DropStatement)
    THEN LET table == DropFirst(query, Len(DropStatement))
         IN  IF table \in DOMAIN c
             THEN {[out  |-> Raise(<<"TypeError: 'NoneType' object is not iterable">>),
                    conn |-> [t \in DOMAIN c \ {table} |-> c[t]]]}
             ELSE {[out |-> DatabaseError(query, "no such table"), conn |-> c]}
    ELSE IF startswith(query, <<"S">>)
    THEN {[out |-> Return(r), conn |-> c] : r \in Results}
            \cup {[out |-> DatabaseError(query, reason), conn |-> c] : reason \in Reasons}
    ELSE {[out |-> DatabaseError(query, "syntax error"), conn |-> c]}

-----------------------------------------------------------------------------
(* RAGSystem._get_database_schema                                          *)

\* the mapping of pandas dtypes to column types
ColumnType(dtype_str) ==
    IF Contains(dtype_str, <<"i", "n", "t">>) THEN "INTEGER"
    ELSE IF Contains(dtype_str, <<"f", "l", "o", "a", "t">>) THEN "REAL"
    ELSE IF Contains(dtype_str, <<"d", "a", "t", "e", "t", "i", "m", "e">>) THEN "DATETIME"
    ELSE "TEXT"

\* the dicts columns.append may receive for column i: one per outcome of sample
ColumnInfo(df, i) ==
    {[name          |-> df.cols[i].name,
      type          |-> ColumnType(df.cols[i].dtype),
      sample_values |-> sv] :
        sv \in sample(dropna(df.cols[i].values), Min(3, Max(1, df.len)))}

RECURSIVE ColumnInfos(_, _)
ColumnInfos(df, n) ==
    IF n = 0 THEN {<<>>}
    ELSE {Append(cs, c) : cs \in ColumnInfos(df, n - 1), c \in ColumnInfo(df, n)}

SchemaEntry(info) ==
    {[table_name |-> info.clean_name, columns |-> cs, row_count |-> info.data.len] :
        cs \in ColumnInfos(info.data, Len(info.data.cols))}

RECURSIVE SchemaUpTo(_, _)
SchemaUpTo(sheet_info, n) ==
    IF n = 0 THEN {<<>>}
    ELSE {Set(schema, sheet_info[n].key, entry) :
            schema \in SchemaUpTo(sheet_info, n - 1),
            entry \in SchemaEntry(sheet_info[n].value)}

\* the schemas the call may return; none when a sample raises ValueError
_get_database_schema(sh) == SchemaUpTo(get_all_sheet_info(sh), Len(sh))

-----------------------------------------------------------------------------
(* RAGSystem._fix_sql_query: the repair prompt                             *)

RECURSIVE Concat(_)
Concat(ss) == IF ss = <<>> THEN <<>> ELSE Head(ss) \o Concat(Tail(ss))

StrColumn(c) ==
    <<"{'name':", c.name, "'type':", c.type, "'sample_values':">>
        \o c.sample_values \o <<"}">>

StrEntry(entry) ==
    <<"{'table_name':">> \o entry.table_name \o <<"'columns':">>
        \o Concat([i \in DOMAIN entry.columns |-> StrColumn(entry.columns[i])])
        \o <<"'row_count':", IntStr(entry.row_count), "}">>

\* str(database_schema)
StrSchema(schema) ==
    <<"{">>
        \o Concat([i \in DOMAIN schema |->
                      schema[i].key \o <<":">> \o StrEntry(schema[i].value)])
        \o <<"}">>

\* a repair prompt that leaves the schema out
FixPromptNoSchema(query, error_message, schema) ==
    <<"You are an expert in SQL. The following SQL query failed:">> \o query
        \o <<"Error message:">> \o error_message
        \o <<"DATABASE SCHEMA:">>
        \o <<"Please fix the SQL query to make it work with the given schema.">>

FixPrompt(query, error_message, schema) ==
    <<"You are an expert in SQL. The following SQL query failed:">> \o query
        \o <<"Error message:">> \o error_message
        \o <<"DATABASE SCHEMA:">> \o StrSchema(schema)
        \o <<"Please fix the SQL query to make it work with the given schema.">>

-----------------------------------------------------------------------------
(* The providers' operations: the three variants differ in transport only. *)
(* A call returns the model's reply, stripped, or raises the transport's   *)
(* error.                                                                  *)

RequestError == Raise(<<"provider request failed">>)

generate_sql(query, schema, Replies) ==
    {Return(strip(reply)) : reply \in Replies} \cup {RequestError}

\* a DataFrame variable holding None
NoFrame == [none |-> TRUE]

NoResultsFound == <<"No results found">>

\* a rendering that knows no marker
result_str_unchecked(sql_result) == to_string(sql_result)

\* generate_response's rendering of sql_result
result_str(sql_result) ==
    IF sql_result # NoFrame /\ ~empty(sql_result)
    THEN to_string(sql_result)
    ELSE NoResultsFound

\* what generate_response puts in its prompt
ResponsePrompt(query, sql_result, context) ==
    [query |-> query, result_str |-> result_str(sql_result), context |-> context]

generate_response(query, sql_result, context, Replies) ==
    {Return(strip(reply)) : reply \in Replies} \cup {RequestError}

-----------------------------------------------------------------------------
(* The values the runs draw from                                           *)

Float64 == <<"f", "l", "o", "a", "t", "6", "4">>

Int64 == <<"i", "n", "t", "6", "4">>

Object == <<"o", "b", "j", "e", "c", "t">>

\* two rows, no missing value
Sales ==
    [cols |-> <<[name |-> "amount", dtype |-> Float64, values |-> <<"100.0", "150.0">>]>>,
     len  |-> 2]

\* one row, two columns
Staff ==
    [cols |-> <<[name |-> "id", dtype |-> Int64, values |-> <<"7">>],
                [name |-> "region", dtype |-> Object, values |-> <<"East">>]>>,
     len  |-> 1]

\* two rows, one of them without amount
Partial ==
    [cols |-> <<[name |-> "amount", dtype |-> Float64, values |-> <<"100.0", NaN>>]>>,
     len  |-> 2]

\* a header and no row
NoRows ==
    [cols |-> <<[name |-> "amount", dtype |-> Object, values |-> <<>>]>>,
     len  |-> 0]

DataFrames == {Sales, Staff, Partial, NoRows}

\* "a b" and "a_b" derive the same identifier; "" has none
SheetNames == {<<"a", " ", "b">>, <<"a", "_", "b">>, <<>>}

Questions == {<<"What is the total amount?">>}

\* the model's replies to a query-generation prompt
SqlReplies ==
    { <<"S", "1">>,
      FenceSql \o <<"\n", "S", "2", "\n">> \o Fence \o <<"\n">>,
      Fence \o <<"p", "y", "\n", "S", "3", "\n">> \o Fence,
      DropStatement \o <<"a", "_", "b">> }

\* the model's replies to an answer prompt
AnswerReplies == {<<"The total is 250.", "\n">>}

\* the results a SELECT may give: one row, or no row
QueryResults ==
    { [cols |-> <<[name |-> "total", dtype |-> Float64, values |-> <<"250.0">>]>>,
       len  |-> 1],
      [cols |-> <<[name |-> "total", dtype |-> Float64, values |-> <<>>]>>,
       len  |-> 0] }

\* the reasons a SELECT may fail for
FailureReasons == {"no such column: total", "no such table: Sales"}

-----------------------------------------------------------------------------
(* The store and the pipeline                                              *)

Idle == pc = "idle"

\* ExcelDatabase.add_sheet, called between queries
add_sheet(sheet_name, df) ==
    /\ Idle
    /\ LET cn == _clean_table_name(sheet_name)
       IN  IF ~cn.ok
           THEN UNCHANGED storeVars   \* the IndexError goes to the caller
           ELSE /\ sheets' = Set(sheets, sheet_name,
                                 [clean_name |-> cn.val,
                                  columns    |-> columns(df),
                                  data       |-> df])
                /\ conn' = to_sql(conn, cn.val, df)
                /\ added' = [n \in DOMAIN added \cup {sheet_name} |->
                                IF n # sheet_name THEN added[n]
                                ELSE [data     |-> df,
                                      replaced |-> IF n \in DOMAIN added
                                                   THEN added[n].replaced \/ added[n].data # df
                                                   ELSE FALSE]]
    /\ UNCHANGED <<queryVars, cleanVars, nameVars, providerVars, appVars>>

Call(op, args, out) == [op |-> op, args |-> args, out |-> out]

\* RAGSystem.query, line 31: the call starts by taking the schema snapshot
query(question) ==
    /\ Idle
    /\ natural_language_query' = question
    /\ sql_query' = <<>>
    /\ fixed_sql' = <<>>
    /\ e' = Return(<<>>)
    /\ results' = NoFrame
    /\ LET schemas == _get_database_schema(sheets)
       IN  IF schemas = {}
           THEN LET raised == Raise(<<"ValueError: Cannot take a larger sample than population">>)
                IN  /\ database_schema' = <<>>
                    /\ log' = <<Call("_get_database_schema", <<>>, raised)>>
                    /\ outcome' = raised
                    /\ pc' = "done"
           ELSE \E schema \in schemas :
                    /\ database_schema' = schema
                    /\ log' = <<Call("_get_database_schema", <<>>, Return(schema))>>
                    /\ outcome' = Return(<<>>)
                    /\ pc' = "generate_sql"
    /\ UNCHANGED <<storeVars, cleanVars, nameVars, providerVars, sessionVars>>

\* a provider failure handled like a failed execution: it starts the repair
GenerateSqlRepaired ==
    /\ pc = "generate_sql"
    /\ \E out \in generate_sql(natural_language_query, database_schema, SqlReplies) :
        /\ log' = Append(log, Call("generate_sql",
                                   [query |-> natural_language_query,
                                    database_schema |-> database_schema], out))
        /\ IF out.ok
           THEN /\ sql_query' = _clean_sql_query(out.val)
                /\ pc' = "execute_query"
                /\ UNCHANGED e
           ELSE /\ e' = out
                /\ pc' = "_fix_sql_query"
                /\ UNCHANGED sql_query
    /\ UNCHANGED <<natural_language_query, database_schema, fixed_sql, results, outcome>>
    /\ UNCHANGED <<storeVars, cleanVars, nameVars, providerVars, appVars>>

\* lines 34-37: generate the query text and clean it
GenerateSql ==
    /\ pc = "generate_sql"
    /\ \E out \in generate_sql(natural_language_query, database_schema, SqlReplies) :
        /\ log' = Append(log, Call("generate_sql",
                                   [query |-> natural_language_query,
                                    database_schema |-> database_schema], out))
        /\ IF out.ok
           THEN /\ sql_query' = _clean_sql_query(out.val)
                /\ pc' = "execute_query"
                /\ UNCHANGED outcome
           ELSE /\ outcome' = out
                /\ pc' = "done"
                /\ UNCHANGED sql_query
    /\ UNCHANGED <<natural_language_query, database_schema, e, fixed_sql, results>>
    /\ UNCHANGED <<storeVars, cleanVars, nameVars, providerVars, appVars>>

\* lines 40-42: execute the query text; a failure enters the except branch
ExecuteQuery ==
    /\ pc = "execute_query"
    /\ \E r \in read_sql_query(sql_query, conn, QueryResults, FailureReasons) :
        /\ conn' = r.conn
        /\ log' = Append(log, Call("execute_query", [query |-> sql_query], r.out))
        /\ IF r.out.ok
           THEN /\ results' = r.out.val
                /\ pc' = "generate_response"
                /\ UNCHANGED e
           ELSE /\ e' = r.out
                /\ pc' = "_fix_sql_query"
                /\ UNCHANGED results
    /\ UNCHANGED <<natural_language_query, database_schema, sql_query, fixed_sql, outcome>>
    /\ UNCHANGED <<sheets, added, cleanVars, nameVars, providerVars, appVars>>

\* lines 44-46: ask the provider for a repaired text and clean it
FixSqlQuery ==
    /\ pc = "_fix_sql_query"
    /\ LET prompt == FixPrompt(sql_query, str(e), database_schema)
       IN  \E out \in generate_sql(prompt, database_schema, SqlReplies) :
            /\ log' = Append(log, Call("generate_sql",
                                       [query |-> prompt,
                                        database_schema |-> database_schema], out))
            /\ IF out.ok
               THEN /\ fixed_sql' = _clean_sql_query(out.val)
                    /\ pc' = "execute_fixed"
                    /\ UNCHANGED outcome
               ELSE /\ outcome' = out
                    /\ pc' = "done"
                    /\ UNCHANGED fixed_sql
    /\ UNCHANGED <<natural_language_query, database_schema, sql_query, e, results>>
    /\ UNCHANGED <<storeVars, cleanVars, nameVars, providerVars, appVars>>

\* a repair cycle that starts over when the repaired text fails
ExecuteFixedAgain ==
    /\ pc = "execute_fixed"
    /\ \E r \in read_sql_query(fixed_sql, conn, QueryResults, FailureReasons) :
        /\ conn' = r.conn
        /\ log' = Append(log, Call("execute_query", [query |-> fixed_sql], r.out))
        /\ sql_query' = fixed_sql
        /\ IF r.out.ok
           THEN /\ results' = r.out.val
                /\ pc' = "generate_response"
                /\ UNCHANGED e
           ELSE /\ e' = r.out
                /\ pc' = "_fix_sql_query"
                /\ UNCHANGED results
    /\ UNCHANGED <<natural_language_query, database_schema, fixed_sql, outcome>>
    /\ UNCHANGED <<sheets, added, cleanVars, nameVars, providerVars, appVars>>

\* a second failure that is answered from no result instead of raised
ExecuteFixedSwallowed ==
    /\ pc = "execute_fixed"
    /\ \E r \in read_sql_query(fixed_sql, conn, QueryResults, FailureReasons) :
        /\ conn' = r.conn
        /\ log' = Append(log, Call("execute_query", [query |-> fixed_sql], r.out))
        /\ results' = IF r.out.ok THEN r.out.val ELSE NoFrame
    /\ sql_query' = fixed_sql
    /\ pc' = "generate_response"
    /\ UNCHANGED <<natural_language_query, database_schema, e, fixed_sql, outcome>>
    /\ UNCHANGED <<sheets, added, cleanVars, nameVars, providerVars, appVars>>

\* a repair whose text is executed but not kept (line 48 left out)
ExecuteFixedNotKept ==
    /\ pc = "execute_fixed"
    /\ \E r \in read_sql_query(fixed_sql, conn, QueryResults, FailureReasons) :
        /\ conn' = r.conn
        /\ log' = Append(log, Call("execute_query", [query |-> fixed_sql], r.out))
        /\ IF r.out.ok
           THEN /\ results' = r.out.val
                /\ pc' = "generate_response"
                /\ UNCHANGED outcome
           ELSE /\ outcome' = r.out
                /\ pc' = "done"
                /\ UNCHANGED results
    /\ UNCHANGED <<natural_language_query, database_schema, sql_query, e, fixed_sql>>
    /\ UNCHANGED <<sheets, added, cleanVars, nameVars, providerVars, appVars>>

\* lines 47-48: execute the repaired text; a failure leaves query()
ExecuteFixed ==
    /\ pc = "execute_fixed"
    /\ \E r \in read_sql_query(fixed_sql, conn, QueryResults, FailureReasons) :
        /\ conn' = r.conn
        /\ log' = Append(log, Call("execute_query", [query |-> fixed_sql], r.out))
        /\ IF r.out.ok
           THEN /\ results' = r.out.val
                /\ sql_query' = fixed_sql
                /\ pc' = "generate_response"
                /\ UNCHANGED outcome
           ELSE /\ outcome' = r.out
                /\ pc' = "done"
                /\ UNCHANGED <<results, sql_query>>
    /\ UNCHANGED <<natural_language_query, database_schema, e, fixed_sql>>
    /\ UNCHANGED <<sheets, added, cleanVars, nameVars, providerVars, appVars>>

\* lines 51-58: build the context, ask for the answer, return
GenerateResponse ==
    /\ pc = "generate_response"
    /\ LET context == [original_query |-> natural_language_query,
                       sql_query      |-> sql_query,
                       schema         |-> database_schema]
       IN  \E out \in generate_response(natural_language_query, results, context,
                                        AnswerReplies) :
            /\ log' = Append(log, Call("generate_response",
                                       [query      |-> natural_language_query,
                                        sql_result |-> results,
                                        context    |-> context,
                                        prompt     |-> ResponsePrompt(
                                                          natural_language_query,
                                                          results, context)], out))
            /\ outcome' = IF out.ok
                          THEN Return([sql_query |-> sql_query, response |-> out.val])
                          ELSE out
    /\ pc' = "done"
    /\ UNCHANGED <<natural_language_query, database_schema, sql_query, e, fixed_sql,
                   results>>
    /\ UNCHANGED <<storeVars, cleanVars, nameVars, providerVars, appVars>>

\* query() is over: its caller has the outcome and the frame is gone
Finish ==
    /\ pc = "done"
    /\ pc' = "idle"
    /\ natural_language_query' = <<>>
    /\ database_schema' = <<>>
    /\ sql_query' = <<>>
    /\ e' = Return(<<>>)
    /\ fixed_sql' = <<>>
    /\ results' = NoFrame
    /\ outcome' = Return(<<>>)
    /\ log' = <<>>
    /\ UNCHANGED <<storeVars, cleanVars, nameVars, providerVars, appVars>>

\* ExcelDatabase.__init__, and no query() under way
InitStore ==
    /\ sheets = <<>>
    /\ conn = <<>>
    /\ added = <<>>
    /\ pc = "idle"
    /\ natural_language_query = <<>>
    /\ database_schema = <<>>
    /\ sql_query = <<>>
    /\ e = Return(<<>>)
    /\ fixed_sql = <<>>
    /\ results = NoFrame
    /\ outcome = Return(<<>>)
    /\ log = <<>>

InitClean == text = <<>> /\ cleaned = <<>>

InitName == display_name = <<>> /\ derived = <<>>

InitProvider == environ = <<>> /\ created = <<>>

\* app.py, lines 22-30: the session state of a new session
InitSession ==
    /\ uploaded_file = None
    /\ session_sheets = NoSheets
    /\ chat_history = <<>>
    /\ llm_provider = None

Init == InitStore /\ InitClean /\ InitName /\ InitProvider /\ InitSession

Next ==
    \/ \E sheet_name \in SheetNames, df \in DataFrames : add_sheet(sheet_name, df)
    \/ \E question \in Questions : query(question) /\ UNCHANGED llm_provider
    \/ GenerateSql
    \/ ExecuteQuery
    \/ FixSqlQuery
    \/ ExecuteFixed
    \/ GenerateResponse
    \/ Finish

Spec == Init /\ [][Next]_vars

-----------------------------------------------------------------------------
(* The application, app.py: one session that takes files in and submits    *)
(* questions. A script run is one step, but for the run of a submission,   *)
(* which goes through the steps of query() above.                          *)

MaxHistory == 2

\* the files a user may upload: name, and what pd.read_excel makes of them
Files ==
    { [name |-> <<"sales.xlsx">>,
       read |-> Return(<<[key |-> <<"a", "_", "b">>, value |-> Sales]>>)],
      [name |-> <<"empty.xlsx">>,
       read |-> Return(<<[key |-> <<"a", " ", "b">>, value |-> NoRows]>>)],
      [name |-> <<"broken.xls">>,
       read |-> Raise(<<"Excel file format cannot be determined">>)] }

\* the options of the provider selectbox, lines 86-89
ProviderLabels ==
    { <<"OpenAI (GPT-4o)">>,
      <<"Google (Gemini 2.0 Flash)">>,
      <<"DeepSeek (via OpenRouter)">> }

\* lines 130-135: the provider name the label stands for
ProviderNameOf(label) ==
    IF label = <<"OpenAI (GPT-4o)">> THEN <<"o", "p", "e", "n", "a", "i">>
    ELSE IF label = <<"Google (Gemini 2.0 Flash)">> THEN <<"g", "e", "m", "i", "n", "i">>
    ELSE <<"o", "p", "e", "n", "r", "o", "u", "t", "e", "r">>

\* what the key input may hold
KeyInputs == {<<>>, <<"k", "e", "y">>}

\* what the question input may hold
QuestionInputs == Questions \cup {<<>>}

\* ExcelDatabase(): a store with no sheet
ExcelDatabase == [sheets |-> <<>>, conn |-> <<>>, added |-> <<>>]

\* lines 52-54: add_sheet for every sheet of the file, in order, until one raises
RECURSIVE AddSheets(_, _)
AddSheets(db, items) ==
    IF items = <<>> THEN Return(db)
    ELSE LET sheet_name == Head(items).key
             df         == Head(items).value
             cn         == _clean_table_name(sheet_name)
         IN  IF ~cn.ok THEN cn
             ELSE AddSheets(
                    [sheets |-> Set(db.sheets, sheet_name,
                                    [clean_name |-> cn.val,
                                     columns    |-> columns(df),
                                     data       |-> df]),
                     conn   |-> to_sql(db.conn, cn.val, df),
                     added  |-> [n \in DOMAIN db.added \cup {sheet_name} |->
                                    IF n # sheet_name THEN db.added[n]
                                    ELSE [data     |-> df,
                                          replaced |-> IF n \in DOMAIN db.added
                                                       THEN db.added[n].replaced
                                                                \/ db.added[n].data # df
                                                       ELSE FALSE]]],
                    Tail(items))

\* lines 43-64: the script run that finds a file other than the one taken in
Upload(file) ==
    /\ Idle
    /\ uploaded_file # file.name
    /\ uploaded_file' = file.name
    /\ LET db == IF file.read.ok THEN AddSheets(ExcelDatabase, file.read.val)
                 ELSE file.read
       IN  IF db.ok
           THEN /\ session_sheets' = Loaded(file.read.val)
                /\ sheets' = db.val.sheets
                /\ conn' = db.val.conn
                /\ added' = db.val.added
                /\ chat_history' = <<>>
           ELSE \* lines 61-64: no store and no sheets are left
                /\ session_sheets' = NoSheets
                /\ sheets' = <<>>
                /\ conn' = <<>>
                /\ added' = <<>>
                /\ UNCHANGED chat_history
    /\ UNCHANGED <<queryVars, cleanVars, nameVars, providerVars, llm_provider>>

\* lines 118-141: Submit Question is pressed; the run goes into query()
Submit(user_query, label, api_key) ==
    /\ Idle
    /\ session_sheets # NoSheets
    /\ Len(chat_history) < MaxHistory
    /\ IF ~Truthy(user_query) \/ ~Truthy(api_key)
          \/ ~create(ProviderNameOf(label), api_key, environ).ok
       THEN UNCHANGED vars   \* a warning or an error is shown
       ELSE /\ query(user_query)
            /\ llm_provider' = label

\* a submission that records the exchange whether query() returned or raised
EndSubmitAlways ==
    /\ pc = "done"
    /\ chat_history' = Append(chat_history,
                              [question |-> natural_language_query,
                               sql      |-> IF outcome.ok THEN outcome.val.sql_query
                                            ELSE sql_query,
                               answer   |-> IF outcome.ok THEN outcome.val.response
                                            ELSE outcome.val,
                               provider |-> llm_provider])
    /\ llm_provider' = None
    /\ pc' = "idle"
    /\ natural_language_query' = <<>>
    /\ database_schema' = <<>>
    /\ sql_query' = <<>>
    /\ e' = Return(<<>>)
    /\ fixed_sql' = <<>>
    /\ results' = NoFrame
    /\ outcome' = Return(<<>>)
    /\ log' = <<>>
    /\ UNCHANGED <<storeVars, cleanVars, nameVars, providerVars,
                   uploaded_file, session_sheets>>

\* lines 141-152: query() returned and the exchange is recorded, or it raised
\* and the error is shown; the run is over
EndSubmit ==
    /\ pc = "done"
    /\ IF outcome.ok
       THEN chat_history' = Append(chat_history,
                                   [question |-> natural_language_query,
                                    sql      |-> outcome.val.sql_query,
                                    answer   |-> outcome.val.response,
                                    provider |-> llm_provider])
       ELSE UNCHANGED chat_history
    /\ llm_provider' = None
    /\ pc' = "idle"
    /\ natural_language_query' = <<>>
    /\ database_schema' = <<>>
    /\ sql_query' = <<>>
    /\ e' = Return(<<>>)
    /\ fixed_sql' = <<>>
    /\ results' = NoFrame
    /\ outcome' = Return(<<>>)
    /\ log' = <<>>
    /\ UNCHANGED <<storeVars, cleanVars, nameVars, providerVars,
                   uploaded_file, session_sheets>>

NextApp ==
    \/ \E file \in Files : Upload(file)
    \/ \E user_query \in QuestionInputs, label \in ProviderLabels, api_key \in KeyInputs :
          Submit(user_query, label, api_key)
    \/ GenerateSql
    \/ ExecuteQuery
    \/ FixSqlQuery
    \/ ExecuteFixed
    \/ GenerateResponse
    \/ EndSubmit

SpecApp == Init /\ [][NextApp]_vars

-----------------------------------------------------------------------------
(* Runs of the sanitizer alone: any text made of a few pieces, cleaned     *)
(* again and again                                                         *)

MaxPieces == 5

MaxCleanings == 2

Pieces == {Fence, <<"s", "q", "l">>, <<"p", "y">>, <<"\n">>, <<" ">>, <<"S">>}

RECURSIVE Texts(_)
Texts(n) ==
    IF n = 0 THEN {<<>>}
    ELSE LET shorter == Texts(n - 1)
         IN  shorter \cup {t \o piece : t \in shorter, piece \in Pieces}

Clean ==
    /\ Len(cleaned) < MaxCleanings
    /\ cleaned' = Append(cleaned,
                         _clean_sql_query(IF cleaned = <<>> THEN text
                                          ELSE cleaned[Len(cleaned)]))
    /\ UNCHANGED <<text, storeVars, queryVars, nameVars, providerVars, appVars>>

InitTexts ==
    /\ InitStore /\ InitName /\ InitProvider /\ InitSession
    /\ text \in Texts(MaxPieces)
    /\ cleaned = <<>>

SpecClean == InitTexts /\ [][Clean]_vars

-----------------------------------------------------------------------------
(* Runs of the identifier derivation alone: any short display name,        *)
(* derived, and the result derived again                                   *)

MaxNameLength == 3

MaxDerivations == 2

NameCharacters == {"a", "Z", "1", " ", "_", "-"}

RECURSIVE Names(_)
Names(n) ==
    IF n = 0 THEN {<<>>}
    ELSE LET shorter == Names(n - 1)
         IN  shorter \cup {Append(t, c) : t \in shorter, c \in NameCharacters}

Derive ==
    /\ Len(derived) < MaxDerivations
    /\ IF derived = <<>> THEN TRUE ELSE derived[Len(derived)].ok
    /\ derived' = Append(derived,
                         _clean_table_name(IF derived = <<>> THEN display_name
                                           ELSE derived[Len(derived)].val))
    /\ UNCHANGED <<display_name, storeVars, queryVars, cleanVars, providerVars, appVars>>

InitNames ==
    /\ InitStore /\ InitClean /\ InitProvider /\ InitSession
    /\ display_name \in Names(MaxNameLength)
    /\ derived = <<>>

SpecName == InitNames /\ [][Derive]_vars

-----------------------------------------------------------------------------
(* Runs of the provider factory alone, under any environment               *)

EnvironmentVariables == {"OPENAI_API_KEY", "GEMINI_API_KEY", "OPENROUTER_API_KEY"}

\* the values a variable may hold: the empty string, or a credential
EnvironmentValues == {<<>>, <<"e", "n", "v">>}

\* the api_key argument: absent, empty, or a credential
ApiKeys == {None, <<>>, <<"k", "e", "y">>}

ProviderNames ==
    { <<"o", "p", "e", "n", "a", "i">>,
      <<"G", "e", "m", "i", "n", "i">>,
      <<"O", "P", "E", "N", "R", "O", "U", "T", "E", "R">>,
      <<"c", "l", "a", "u", "d", "e">> }

Environments ==
    UNION {[set -> EnvironmentValues] : set \in SUBSET EnvironmentVariables}

Create(provider_name, api_key) ==
    /\ created' = <<[provider_name |-> provider_name,
                     api_key       |-> api_key,
                     out           |-> create(provider_name, api_key, environ)]>>
    /\ UNCHANGED <<environ, storeVars, queryVars, cleanVars, nameVars, appVars>>

NextProvider ==
    \E provider_name \in ProviderNames, api_key \in ApiKeys :
        Create(provider_name, api_key)

InitEnvironments ==
    /\ InitStore /\ InitClean /\ InitName /\ InitSession
    /\ environ \in Environments
    /\ created = <<>>

SpecProvider == InitEnvironments /\ [][NextProvider]_vars

-----------------------------------------------------------------------------
(* What one invocation of query() did, read off its log                    *)

CallsOf(op) == SelectSeq(log, LAMBDA c : c.op = op)

GenerateCalls == CallsOf("generate_sql")

ExecuteCalls == CallsOf("execute_query")

AnswerCalls == CallsOf("generate_response")

\* the provider and store calls, without their arguments
ProviderAndStoreOps ==
    LET calls == SelectSeq(log, LAMBDA c : c.op \in {"generate_sql", "execute_query"})
    IN  [i \in DOMAIN calls |-> calls[i].op]

FirstExecutionFailed == Len(ExecuteCalls) >= 1 /\ ~ExecuteCalls[1].out.ok

BothExecutionsFailed ==
    /\ Len(ExecuteCalls) >= 2
    /\ ~ExecuteCalls[1].out.ok
    /\ ~ExecuteCalls[2].out.ok

Returned == pc = "done" /\ outcome.ok

-----------------------------------------------------------------------------
(* The claims                                                              *)

\* C1: one invocation of query() makes its generate_sql and execute_query calls
\* in the order generate, execute, generate, execute and stops there at the
\* latest (at most two of each); once it is over, a second generate_sql call
\* was made exactly if the first execution failed, and a second execution was
\* made exactly if that second generate_sql call returned a text.
C1_ExactlyOneRepair ==
    /\ Len(ProviderAndStoreOps) <= 4
    /\ ProviderAndStoreOps =
         SubSeq(<<"generate_sql", "execute_query", "generate_sql", "execute_query">>,
                1, Len(ProviderAndStoreOps))
    /\ pc = "done" =>
         /\ Len(GenerateCalls) = 2 <=> FirstExecutionFailed
         /\ Len(ExecuteCalls) = 2 <=> (Len(GenerateCalls) = 2 /\ GenerateCalls[2].out.ok)

\* a repair took place and its text was executed
C1_Witness ==
    /\ pc = "done"
    /\ FirstExecutionFailed
    /\ Len(GenerateCalls) = 2
    /\ Len(ExecuteCalls) = 2

\* C2: when the original and the repaired text both fail to execute, query()
\* is over with the second execution's exception as its outcome: that
\* execution is the last call made, there are two executions, generate_response
\* was not called and nothing is returned.
C2_SecondFailurePropagates ==
    BothExecutionsFailed =>
        /\ pc = "done"
        /\ ~outcome.ok
        /\ outcome.val = ExecuteCalls[2].out.val
        /\ Len(ExecuteCalls) = 2
        /\ log[Len(log)] = ExecuteCalls[2]
        /\ AnswerCalls = <<>>

\* both executions failed, each with its own message
C2_Witness ==
    /\ BothExecutionsFailed
    /\ pc = "done"
    /\ ExecuteCalls[1].out.val # ExecuteCalls[2].out.val

\* C3: when query() returns, the returned text is the text of the last
\* execution, that execution succeeded, the text is the cleaned return value of
\* the last generate_sql call (the repair's, when there was one), the context
\* given to generate_response holds the same text, and the result given to
\* generate_response is that execution's result.
C3_ReturnedTextIsExecutedText ==
    Returned =>
        LET executed  == ExecuteCalls[Len(ExecuteCalls)]
            generated == GenerateCalls[Len(GenerateCalls)]
            answer    == AnswerCalls[1]
        IN  /\ executed.out.ok
            /\ outcome.val.sql_query = executed.args.query
            /\ generated.out.ok
            /\ executed.args.query = _clean_sql_query(generated.out.val)
            /\ Len(AnswerCalls) = 1
            /\ answer.args.context.sql_query = outcome.val.sql_query
            /\ answer.args.sql_result = executed.out.val
            /\ Len(GenerateCalls) = Len(ExecuteCalls)

\* query() returned after a repair whose text differs from the original's
C3_Witness ==
    /\ Returned
    /\ Len(ExecuteCalls) = 2
    /\ outcome.val.sql_query # ExecuteCalls[1].args.query
    /\ outcome.val.sql_query # GenerateCalls[2].out.val

\* C4: cleaning is idempotent: cleaning a cleaned text gives the same text.
C4_CleanIdempotent ==
    Len(cleaned) >= 2 => cleaned[2] = cleaned[1]

\* the ways an answer may be fenced: the opening marker with a language tag or
\* none, a line break, the body, the closing marker
LanguageTags == {<<>>, <<"s", "q", "l">>, <<"p", "y">>}

Bodies == Texts(1)

Fenced(tag, body) == Fence \o tag \o <<"\n">> \o body \o Fence

\* C5: cleaning a text made of an opening marker (with any language tag or
\* none), a body and a closing marker gives the stripped body.
C5_FenceRemoved ==
    Len(cleaned) >= 1 =>
        \A tag \in LanguageTags, body \in Bodies :
            text = Fenced(tag, body) => cleaned[1] = strip(body)

\* C6: for every display name the derivation returns a value, and the value is
\* not empty, does not start with a digit and holds only letters, digits and
\* underscores.
C6_IdentifierWellFormed ==
    Len(derived) >= 1 =>
        /\ derived[1].ok
        /\ derived[1].val # <<>>
        /\ derived[1].val[1] \notin Digits
        /\ Range(derived[1].val) \subseteq AlphaNumeric \cup {"_"}

\* C7: no two registered display names have the same identifier, and the
\* backend holds each registered table's data under its identifier.
C7_IdentifierUnique ==
    /\ \A i, j \in DOMAIN sheets :
          i # j => sheets[i].value.clean_name # sheets[j].value.clean_name
    /\ \A i \in DOMAIN sheets :
          /\ sheets[i].value.clean_name \in DOMAIN conn
          /\ conn[sheets[i].value.clean_name] = sheets[i].value.data

\* the snapshot query() took, while query() runs
SnapshotTaken == pc # "idle" /\ log[1].out.ok

\* C8: the snapshot a query takes has exactly one entry per registered display
\* name, and the entry holds the column names and the row count of the data
\* last added under that name.
C8_SnapshotCurrent ==
    SnapshotTaken =>
        /\ Keys(database_schema) = DOMAIN added
        /\ Len(database_schema) = Cardinality(DOMAIN added)
        /\ \A n \in DOMAIN added :
              LET entry == Get(database_schema, n)
              IN  /\ [i \in DOMAIN entry.columns |-> entry.columns[i].name]
                        = columns(added[n].data)
                  /\ entry.row_count = added[n].data.len

\* a snapshot of two tables, one of them added again with other data (the
\* one-row table) after it was first added
C8_Witness ==
    /\ SnapshotTaken
    /\ \E n \in DOMAIN added :
          /\ added[n].replaced
          /\ Get(database_schema, n).row_count = 1
    /\ Len(database_schema) = 2

\* C9: generate_response is given the last execution's result; when that result
\* has no row the prompt holds the marker as its rendering, and when it has a
\* row the prompt holds the rows' values and not the marker.
C9_NoResultsMarker ==
    \A k \in DOMAIN AnswerCalls :
        LET answer == AnswerCalls[k]
            result == answer.args.sql_result
        IN  /\ result = ExecuteCalls[Len(ExecuteCalls)].out.val
            /\ result.len = 0 => answer.args.prompt.result_str = NoResultsFound
            /\ result.len >= 1 =>
                  /\ answer.args.prompt.result_str # NoResultsFound
                  /\ \A i \in DOMAIN result.cols :
                        Range(result.cols[i].values)
                            \subseteq Range(answer.args.prompt.result_str)

\* an answer was asked for a result without rows
C9_Witness ==
    /\ AnswerCalls # <<>>
    /\ AnswerCalls[1].args.sql_result.len = 0
    /\ AnswerCalls[1].args.prompt.result_str = NoResultsFound

\* the environment variable of each supported provider
VariableOf(provider_name) ==
    IF lower(provider_name) = <<"o", "p", "e", "n", "a", "i">> THEN "OPENAI_API_KEY"
    ELSE IF lower(provider_name) = <<"g", "e", "m", "i", "n", "i">> THEN "GEMINI_API_KEY"
    ELSE "OPENROUTER_API_KEY"

Supported(provider_name) ==
    lower(provider_name) \in { <<"o", "p", "e", "n", "a", "i">>,
                               <<"g", "e", "m", "i", "n", "i">>,
                               <<"o", "p", "e", "n", "r", "o", "u", "t", "e", "r">> }

\* C10: constructing a supported provider fails exactly if neither the explicit
\* credential nor the provider's environment variable holds a non-empty
\* credential.
C10_FailsOnlyWithoutCredential ==
    \A k \in DOMAIN created :
        Supported(created[k].provider_name) =>
            (created[k].out.ok <=>
                \/ Truthy(created[k].api_key)
                \/ Truthy(environ_get(environ, VariableOf(created[k].provider_name))))

ProviderOps == {"generate_sql", "generate_response"}

\* C11: a provider call that raises is the last call query() makes, and its
\* exception is query()'s outcome (nothing is returned); when the first
\* generate_sql call raises no execution is made; no generate_sql call is made
\* twice with the same arguments, and generate_response is called at most once.
C11_ProviderFailurePropagates ==
    /\ \A i \in DOMAIN log :
          (log[i].op \in ProviderOps /\ ~log[i].out.ok) =>
              /\ i = Len(log)
              /\ pc = "done"
              /\ ~outcome.ok
              /\ outcome.val = log[i].out.val
    /\ (GenerateCalls # <<>> /\ ~GenerateCalls[1].out.ok) => ExecuteCalls = <<>>
    /\ \A i, j \in DOMAIN GenerateCalls :
          i # j => GenerateCalls[i].args # GenerateCalls[j].args
    /\ Len(AnswerCalls) <= 1

\* the first generate_sql call raised and query() is over
C11_Witness ==
    /\ pc = "done"
    /\ Len(GenerateCalls) = 1
    /\ ~GenerateCalls[1].out.ok
    /\ ~outcome.ok

\* C12: building the snapshot succeeds whatever the registered tables hold,
\* and every column's sample is at most 3 values, each a non-null value of
\* that column.
C12_SamplesDrawn ==
    log # <<>> =>
        /\ log[1].out.ok
        /\ \A i \in DOMAIN database_schema :
              LET entry == database_schema[i].value
                  data  == Get(sheets, database_schema[i].key).data
              IN  \A k \in DOMAIN entry.columns :
                      /\ Len(entry.columns[k].sample_values) <= 3
                      /\ NaN \notin Range(entry.columns[k].sample_values)
                      /\ Range(entry.columns[k].sample_values)
                            \subseteq Range(data.cols[k].values)

\* C13: every step that is not an add_sheet call leaves the registered tables
\* and the tables of the backend as they were.
C13_OnlyAddSheetMutates ==
    [][\/ \E sheet_name \in SheetNames, df \in DataFrames : add_sheet(sheet_name, df)
       \/ (sheets' = sheets /\ conn' = conn)]_vars


SchemaCalls == CallsOf("_get_database_schema")

\* C14: query() takes the schema snapshot once, as its first call, and every
\* provider call of the invocation carries that snapshot: both generate_sql
\* calls as their schema argument, the repair prompt in its text together with
\* the failed query text and its error message, and generate_response in its
\* context, with the original question as its query.
C14_SnapshotEchoed ==
    log # <<>> =>
        /\ log[1].op = "_get_database_schema"
        /\ Len(SchemaCalls) = 1
        /\ log[1].out.ok => database_schema = log[1].out.val
        /\ \A i \in DOMAIN GenerateCalls :
              GenerateCalls[i].args.database_schema = log[1].out.val
        /\ GenerateCalls # <<>> => GenerateCalls[1].args.query = natural_language_query
        /\ Len(GenerateCalls) >= 2 =>
              LET prompt == GenerateCalls[2].args.query
              IN  /\ ExecuteCalls # <<>>
                  /\ ~ExecuteCalls[1].out.ok
                  /\ Contains(prompt, StrSchema(log[1].out.val))
                  /\ Contains(prompt, ExecuteCalls[1].args.query)
                  /\ Contains(prompt, ExecuteCalls[1].out.val)
        /\ \A i \in DOMAIN AnswerCalls :
              /\ AnswerCalls[i].args.context.schema = log[1].out.val
              /\ AnswerCalls[i].args.query = natural_language_query
              /\ AnswerCalls[i].args.query = GenerateCalls[1].args.query
              /\ AnswerCalls[i].args.context.original_query = natural_language_query

C14_Witness ==
    /\ Returned
    /\ Len(GenerateCalls) = 2
    /\ Len(AnswerCalls) = 1
    /\ database_schema # <<>>

\* the record the submission under way appends when query() has returned
Exchange ==
    [question |-> natural_language_query,
     sql      |-> outcome.val.sql_query,
     answer   |-> outcome.val.response,
     provider |-> llm_provider]

\* a file other than the one taken in was loaded
FileLoaded ==
    /\ Idle
    /\ uploaded_file' # uploaded_file
    /\ session_sheets' # NoSheets

\* C15 as the specification states it: whatever the step, every record of the
\* history is still there after it, at the same position and unchanged.
C15_HistoryAppendOnly ==
    [][\A i \in DOMAIN chat_history :
          /\ i \in DOMAIN chat_history'
          /\ chat_history'[i] = chat_history[i]]_vars

\* C15, amended: a step appends one record {question, final query text, final
\* answer, provider} when it ends a submission whose query() returned, empties
\* the history when it loads a file other than the one taken in, and leaves the
\* history as it was in every other case: a submission under way or ended by an
\* error, a submission refused, a file that could not be loaded.
C15_HistoryAppendOnlyBetweenUploads ==
    [][IF pc = "done" /\ outcome.ok
       THEN chat_history' = Append(chat_history, Exchange)
       ELSE IF FileLoaded
       THEN chat_history' = <<>>
       ELSE chat_history' = chat_history]_vars

C15_Witness ==
    /\ Idle
    /\ Len(chat_history) = 2
    /\ chat_history[1].provider # chat_history[2].provider
    /\ chat_history[1].sql # chat_history[2].sql
    /\ uploaded_file = <<"sales.xlsx">>

=========================================================================
